---- MODULE Spec2Model ----
(***************************************************************************)
(* A model of the xml2go library (package xml2go): the schema tree built   *)
(* by ParseXML*, Combine, and the struct generation of GenerateGoCode*.    *)
(*                                                                         *)
(* Strings that the code inspects character by character (element and      *)
(* attribute names, inner XML content, Go identifiers) are sequences of    *)
(* one-character strings.  *NodeDesc pointers are indices into `heap`;     *)
(* the nil pointer is 0.                                                   *)
(***************************************************************************)
EXTENDS Integers, Sequences, FiniteSets, TLC

VARIABLES heap, conv, docs, calls, out

vars == <<heap, conv, docs, calls, out>>

----------------------------------------------------------------------------
(* Bounds of the model.                                                    *)

\* ParseXML* calls (successful or failed) in one behaviour.
MaxParse == 2

----------------------------------------------------------------------------
(* Characters and strings.                                                 *)

\* The characters of the model in increasing code point order.
Alphabet ==
    << " ", "-", ".", "1", "2", "<",
       "A", "B", "C", "D", "E", "F", "G", "H", "I", "J", "K", "L", "M",
       "N", "O", "P", "Q", "R", "S", "T", "U", "V", "W", "X", "Y", "Z",
       "_",
       "a", "b", "c", "d", "e", "f", "g", "h", "i", "j", "k", "l", "m",
       "n", "o", "p", "q", "r", "s", "t", "u", "v", "w", "x", "y", "z" >>

Upper == { "A", "B", "C", "D", "E", "F", "G", "H", "I", "J", "K", "L", "M",
           "N", "O", "P", "Q", "R", "S", "T", "U", "V", "W", "X", "Y", "Z" }

Lower == { "a", "b", "c", "d", "e", "f", "g", "h", "i", "j", "k", "l", "m",
           "n", "o", "p", "q", "r", "s", "t", "u", "v", "w", "x", "y", "z" }

\* The position of a character in Alphabet: its order among code points.
Code(ch) == CHOOSE i \in 1..Len(Alphabet) : Alphabet[i] = ch

IsLetter(ch) == ch \in Upper \cup Lower

IsDigit(ch) == ch \in { "1", "2" }

IsSpace(ch) == ch = " "

ToUpper(ch) == IF ch \in Lower THEN Alphabet[Code(ch) - Code("a") + Code("A")] ELSE ch

\* s[from..] of a Go slice expression, with 1-based positions.
Drop(s, k) == SubSeq(s, k + 1, Len(s))

\* The comparison s < t of two Go strings (byte-wise lexicographic): at the
\* first position k where they differ s has ended or has the smaller byte.
StrLess(s, t) ==
    \E k \in 1..Len(t) :
        /\ k - 1 <= Len(s)
        /\ SubSeq(s, 1, k - 1) = SubSeq(t, 1, k - 1)
        /\ k > Len(s) \/ Code(s[k]) < Code(t[k])

RECURSIVE TrimLeft(_)
TrimLeft(s) == IF Len(s) > 0 /\ IsSpace(s[1]) THEN TrimLeft(Tail(s)) ELSE s

RECURSIVE TrimRight(_)
TrimRight(s) ==
    IF Len(s) > 0 /\ IsSpace(s[Len(s)]) THEN TrimRight(SubSeq(s, 1, Len(s) - 1)) ELSE s

TrimSpace(s) == TrimRight(TrimLeft(s))

HasPrefix(s, p) == Len(s) >= Len(p) /\ SubSeq(s, 1, Len(p)) = p

\* The function goIdent maps over the string: a rune it keeps.
IsIdentRune(ch) == IsLetter(ch) \/ IsDigit(ch) \/ ch = "_"

\* strings.Map with the function of goIdent: keep letters, digits and '_'.
KeepIdentRunes(s) == SelectSeq(s, IsIdentRune)

RECURSIVE StripLeadingDigits(_)
StripLeadingDigits(r) ==
    IF Len(r) > 0 /\ IsDigit(r[1]) THEN StripLeadingDigits(Drop(r, 1)) ELSE r

goIdent(s) ==
    LET r == StripLeadingDigits(KeepIdentRunes(s))
    IN  IF Len(r) > 0 THEN << ToUpper(r[1]) >> \o Tail(r) ELSE r

----------------------------------------------------------------------------
(* The schema tree.                                                        *)

Nil == 0

\* &NodeDesc{Parent: parent, Name: name}
NodeDesc(parent, name) ==
    [ Parent |-> parent, Name |-> name, IsArray |-> FALSE,
      HasCharacterData |-> FALSE, Attributes |-> << >>, Children |-> << >> ]

\* Allocation of a node: the new pointer is the next free index.
Alloc(h, rec) == [ h |-> Append(h, rec), id |-> Len(h) + 1 ]

\* TRUE.  TLC computes x to see it: a loop that tests Computed(h) with its end
\* test computes what a round leaves before the next round starts, as the
\* code does, instead of nesting the rounds.
Computed(x) == x = x

\* getChildIndex that finds no child.
getChildIndexNone(h, n, name) == -1

getChildIndex(h, n, name) ==
    LET hits == { i \in 1..Len(h[n].Children) : h[h[n].Children[i]].Name = name }
    IN  IF hits = {} THEN -1 ELSE CHOOSE i \in hits : \A j \in hits : i <= j

getOrAddChild(h, n, name) ==
    LET i == getChildIndex(h, n, name)
    IN  IF i = -1
        THEN LET a == Alloc(h, NodeDesc(n, name))
             IN  [ h |-> [ a.h EXCEPT ![n].Children = Append(@, a.id) ], id |-> a.id ]
        ELSE [ h |-> h, id |-> h[n].Children[i] ]

\* containsAttribute that finds no attribute.
containsAttributeNever(h, n, name) == FALSE

containsAttribute(h, n, name) ==
    \E i \in 1..Len(h[n].Attributes) : h[n].Attributes[i] = name

countChildrenWithName(n, name) ==
    Cardinality({ i \in 1..Len(n.Nodes) : n.Nodes[i].Name = name })

\* parseCharacterData with the flag computed at every element seen.
parseCharacterDataAlways(h, child, n) ==
    LET content == TrimSpace(n.Content)
    IN  [ h EXCEPT ![child].HasCharacterData =
                       Len(content) > 0 /\ ~HasPrefix(content, << "<" >>) ]

\* parse, the character data step: only an unset flag is computed.
parseCharacterData(h, child, n) ==
    LET content == TrimSpace(n.Content)
    IN  IF ~h[child].HasCharacterData
        THEN [ h EXCEPT ![child].HasCharacterData =
                            Len(content) > 0 /\ ~HasPrefix(content, << "<" >>) ]
        ELSE h

\* parseAttr without the test for an empty value.
parseAttrKeepEmpty(h, child, attr) ==
    IF ~containsAttribute(h, child, attr.Name)
    THEN [ h EXCEPT ![child].Attributes = Append(@, attr.Name) ]
    ELSE h

\* parse, one round of the loop over n.Attrs.
parseAttr(h, child, attr) ==
    IF attr.Value = ""
    THEN h
    ELSE IF ~containsAttribute(h, child, attr.Name)
         THEN [ h EXCEPT ![child].Attributes = Append(@, attr.Name) ]
         ELSE h

RECURSIVE parseAttrs(_, _, _, _)
parseAttrs(h, child, attrs, i) ==
    IF Computed(h) /\ i > Len(attrs) THEN h
    ELSE parseAttrs(parseAttr(h, child, attrs[i]), child, attrs, i + 1)

\* parseIsArray with the flag computed at every element seen.
parseIsArrayAlways(h, grandChild, n) ==
    [ h EXCEPT ![grandChild].IsArray = countChildrenWithName(n, h[grandChild].Name) > 1 ]

\* parse, the IsArray step for a grand child: only an unset flag is computed.
parseIsArray(h, grandChild, n) ==
    IF ~h[grandChild].IsArray
    THEN [ h EXCEPT ![grandChild].IsArray =
                        countChildrenWithName(n, h[grandChild].Name) > 1 ]
    ELSE h

RECURSIVE parse(_, _, _)
RECURSIVE parseChild(_, _)
RECURSIVE parseNodes(_, _, _, _)
\* c.parse(n, parent): the heap and the returned child.
parse(h, n, parent) == parseChild(getOrAddChild(h, parent, n.Name), n)

\* parse after child := parent.getOrAddChild(n.Name), c being the child made.
parseChild(c, n) ==
    [ h  |-> parseNodes(parseAttrs(parseCharacterData(c.h, c.id, n), c.id, n.Attrs, 1),
                        n, c.id, 1),
      id |-> c.id ]

\* parse, round i of the loop over n.Nodes after grandChild :=
\* c.parse(n.Nodes[i], child), g being the grand child made.
parseGrandChild(g, n) == parseIsArray(g.h, g.id, n)

\* parse, the loop over n.Nodes from index i on.
parseNodes(h, n, child, i) ==
    IF Computed(h) /\ i > Len(n.Nodes) THEN h
    ELSE parseNodes(parseGrandChild(parse(h, n.Nodes[i], child), n), n, child, i + 1)

----------------------------------------------------------------------------
(* Copy, merge, sort and structural comparison of trees.                   *)

\* copyNode returning the node itself instead of a copy.
copyNodeShallow(h, n) == [ h |-> h, id |-> n ]

RECURSIVE copyNode(_, _)
RECURSIVE copyChildren(_, _, _, _)
copyNode(h, n) ==
    LET m == Alloc(h, [ Parent |-> Nil, Name |-> h[n].Name, IsArray |-> h[n].IsArray,
                        HasCharacterData |-> h[n].HasCharacterData,
                        Attributes |-> h[n].Attributes, Children |-> << >> ])
    IN  [ h |-> copyChildren(m.h, n, m.id, 1), id |-> m.id ]

\* copyChild that leaves the Parent of the copy nil.
copyChildOrphan(c, n, m, i) == [ c.h EXCEPT ![m].Children = Append(@, c.id) ]

\* copyNode, round i of the loop after m.Children[i] = copyNode(n.Children[i]),
\* c being the copy made.
copyChild(c, n, m, i) ==
    [ c.h EXCEPT ![c.id].Parent = IF c.h[c.h[n].Children[i]].Parent # Nil THEN m ELSE @,
                 ![m].Children = Append(@, c.id) ]

\* copyNode, the loop that fills m.Children from index i on.
copyChildren(h, n, m, i) ==
    IF i > Len(h[n].Children) THEN h
    ELSE copyChildren(copyChild(copyNode(h, h[n].Children[i]), n, m, i), n, m, i + 1)

\* combineFlags keeping the flags of a.
combineFlagsOfA(h, a, b) == h

\* combineNodes, the flags: a.X = a.X || b.X
combineFlags(h, a, b) ==
    [ h EXCEPT ![a].IsArray = @ \/ h[b].IsArray,
               ![a].HasCharacterData = @ \/ h[b].HasCharacterData ]

\* combineNodes, the loop over b.Attributes from index i on.
RECURSIVE combineAttrs(_, _, _, _)
combineAttrs(h, a, b, i) ==
    IF i > Len(h[b].Attributes) THEN h
    ELSE combineAttrs(IF ~containsAttribute(h, a, h[b].Attributes[i])
                      THEN [ h EXCEPT ![a].Attributes = Append(@, h[b].Attributes[i]) ]
                      ELSE h,
                      a, b, i + 1)

\* The result of combineNodes: the heap, the returned pointer, and whether the
\* call panicked ("developer error: only combineNodes with equal Name").
RECURSIVE combineNodes(_, _, _)
RECURSIVE combineChild(_, _, _)
RECURSIVE combineChildren(_, _, _)
combineNodes(h, a, b) ==
    IF h[a].Name # h[b].Name
    THEN [ h |-> h, id |-> a, panic |-> TRUE ]
    ELSE combineChildren([ h |-> combineAttrs(combineFlags(h, a, b), a, b, 1),
                           id |-> a, panic |-> FALSE ], b, 1)

\* combineNodes, a round of the loop after a.Children[k] =
\* combineNodes(a.Children[k], childB), r being what the call returned.
combinedChild(r, a, k) ==
    IF r.panic THEN [ r EXCEPT !.id = a ]
    ELSE [ h |-> [ r.h EXCEPT ![a].Children[k] = r.id, ![r.id].Parent = a ],
           id |-> a, panic |-> FALSE ]

\* combineNodes, a round of the loop over b.Children.
combineChild(h, a, childB) ==
    LET k == getChildIndex(h, a, h[childB].Name)
    IN  IF k = -1
        THEN [ h |-> [ h EXCEPT ![a].Children = Append(@, childB), ![childB].Parent = a ],
               id |-> a, panic |-> FALSE ]
        ELSE combinedChild(combineNodes(h, h[a].Children[k], childB), a, k)

\* combineNodes, the loop over b.Children from index i on, r being the heap
\* and a so far; a panic ends it.
combineChildren(r, b, i) ==
    IF r.panic \/ i > Len(r.h[b].Children) THEN r
    ELSE combineChildren(combineChild(r.h, r.id, r.h[b].Children[i]), b, i + 1)

\* clearChildParents that leaves the Parent of the children as it is.
clearChildParentsNot(h, root, i) == h

\* for _, child := range root.Children { child.Parent = nil }, from index i on.
RECURSIVE clearChildParents(_, _, _)
clearChildParents(h, root, i) ==
    IF i > Len(h[root].Children) THEN h
    ELSE clearChildParents([ h EXCEPT ![h[root].Children[i]].Parent = Nil ], root, i + 1)

\* combine, the end: the children of the merged root r.id become top-level.
combineResult(r) ==
    [ h |-> clearChildParents(r.h, r.id, 1), root |-> r.id, panic |-> r.panic ]

\* combine, the call combineNodes(copyNode(a), copyNode(b)) on the copies made.
combineCopies(ca, cb) == combineResult(combineNodes(cb.h, ca.id, cb.id))

\* combine(a, b) on the roots of the two converters: the new converter's root.
combine(h, aRoot, bRoot) ==
    LET ca == copyNode(h, aRoot) IN combineCopies(ca, copyNode(ca.h, bRoot))

\* Insertion of x into the sorted sequence s, before the first element with a
\* larger key; key maps the elements to the strings they are compared by.
RECURSIVE InsertSorted(_, _, _)
InsertSorted(s, x, key) ==
    IF Len(s) = 0 THEN << x >>
    ELSE IF StrLess(key[x], key[s[1]]) THEN << x >> \o s
    ELSE << s[1] >> \o InsertSorted(Tail(s), x, key)

\* The sorted permutation of s.  The keys the code sorts are pairwise distinct
\* (attribute names of one node, names of the children of one node), so the
\* result does not depend on the sorting algorithm.
RECURSIVE SortBy(_, _)
SortBy(s, key) ==
    IF Len(s) = 0 THEN << >>
    ELSE InsertSorted(SortBy(SubSeq(s, 1, Len(s) - 1), key), s[Len(s)], key)

Range(s) == { s[i] : i \in 1..Len(s) }

\* sort.Strings(s)
SortStrings(s) == SortBy(s, [ x \in Range(s) |-> x ])

\* sortNode leaving the order as it is.
sortNodeNot(h, n) == h

RECURSIVE sortNode(_, _)
RECURSIVE sortChildren(_, _, _)
sortNode(h, n) ==
    LET h1 == [ h EXCEPT ![n].Attributes = SortStrings(@),
                         ![n].Children = SortBy(@, [ c \in Range(@) |-> h[c].Name ]) ]
    IN  sortChildren(h1, n, 1)

\* sortNode, the loop over n.Children from index i on.
sortChildren(h, n, i) ==
    IF i > Len(h[n].Children) THEN h
    ELSE sortChildren(sortNode(h, h[n].Children[i]), n, i + 1)

RECURSIVE sameStructure(_, _, _)
sameStructure(h, a, b) ==
    /\ h[a].HasCharacterData = h[b].HasCharacterData
    /\ Len(h[a].Attributes) = Len(h[b].Attributes)
    /\ \A i \in 1..Len(h[a].Attributes) : h[a].Attributes[i] = h[b].Attributes[i]
    /\ Len(h[a].Children) = Len(h[b].Children)
    /\ \A i \in 1..Len(h[a].Children) :
           h[h[a].Children[i]].Name = h[h[b].Children[i]].Name
    /\ \A i \in 1..Len(h[a].Children) :
           sameStructure(h, h[a].Children[i], h[b].Children[i])

----------------------------------------------------------------------------
(* Generation of the Go structs.                                           *)
(*                                                                         *)
(* The buffer written by generate is a sequence of struct declarations:    *)
(*   name    the identifier after "type"                                   *)
(*   node    the node of the sorted copy the declaration was made for      *)
(*   fields  the lines of the body, each with its field identifier `id`,   *)
(*           its `kind`, whether the type is a slice, the type, the name   *)
(*           in the xml tag, and for a child field the child's node and    *)
(*           whether a known type was reused for it.                       *)

XMLNameIdent == << "X", "M", "L", "N", "a", "m", "e" >>

ContentName == << "C", "o", "n", "t", "e", "n", "t" >>

Field(id, kind, slice, type, tag, node, reused) ==
    [ id |-> id, kind |-> kind, slice |-> slice, type |-> type, tag |-> tag,
      node |-> node, reused |-> reused ]

\* getKnownType that finds no known type.
getKnownTypeNone(h, knownTypes, n) == {}

\* The names known types were registered with that are sameStructure to n.
\* The code ranges over the map in an unspecified order and returns at the
\* first hit: any of these names can be the one returned.
getKnownType(h, knownTypes, n) ==
    { knownTypes[typ] : typ \in { t \in DOMAIN knownTypes : sameStructure(h, n, t) } }

\* The loop that prefixes the identifiers of the parents p, p.Parent, ...
RECURSIVE qualify(_, _, _)
qualify(h, p, nodeName) ==
    IF p = Nil THEN nodeName
    ELSE qualify(h, h[p].Parent, goIdent(h[p].Name) \o << "_" >> \o nodeName)

nodeNameOf(h, n) == qualify(h, h[n].Parent, goIdent(h[n].Name))

\* appendUnderscores that appends nothing.
appendUnderscoresNone(hasName, id) == id

RECURSIVE appendUnderscores(_, _)
appendUnderscores(hasName, id) ==
    IF id \in hasName THEN appendUnderscores(hasName, id \o << "_" >>) ELSE id

\* uniqueGoIdent: the identifier and the updated hasName (the keys set true).
uniqueGoIdent(hasName, name) ==
    LET id == appendUnderscores(hasName, goIdent(name))
    IN  [ id |-> id, hasName |-> hasName \cup { id } ]

\* A line written to the struct body, with the identifier u.id that
\* uniqueGoIdent returned.
addField(body, u, kind, slice, type, tag, node, reused) ==
    [ body EXCEPT !.hasName = u.hasName,
                  !.fields = Append(@, Field(u.id, kind, slice, type, tag, node, reused)) ]

\* generate, the XMLName line of a top-level struct.
xmlNameField(h, n, body) ==
    IF h[n].Parent = Nil
    THEN [ body EXCEPT !.fields =
             Append(@, Field(XMLNameIdent, "xmlname", FALSE, << "xml.Name" >>,
                             h[n].Name, Nil, FALSE)) ]
    ELSE body

\* generate, the Content line.
contentField(h, n, body) ==
    IF h[n].HasCharacterData
    THEN addField(body, uniqueGoIdent(body.hasName, ContentName), "content", FALSE,
                  << "string" >>, << >>, Nil, FALSE)
    ELSE body

\* generate, the loop over n.Attributes from index i on.
RECURSIVE attrFields(_, _, _, _)
attrFields(h, n, i, body) ==
    IF Computed(body) /\ i > Len(h[n].Attributes) THEN body
    ELSE attrFields(h, n, i + 1,
             addField(body, uniqueGoIdent(body.hasName, h[n].Attributes[i]), "attr", FALSE,
                      << "string" >>, h[n].Attributes[i], Nil, FALSE))

\* generate, one round of the loop over n.Children, found being what
\* getKnownType can return: the bodies the round can lead to.
childFieldOf(h, child, body, u, childType, found) ==
    IF found # {}
    THEN { [ addField(body, u, "child", h[child].IsArray, typeName, h[child].Name,
                      child, TRUE)
               EXCEPT !.skipChildGen = Append(@, TRUE) ]
           : typeName \in found }
    ELSE { [ addField(body, u, "child", h[child].IsArray, childType, h[child].Name,
                      child, FALSE)
               EXCEPT !.skipChildGen = Append(@, FALSE),
                      !.knownTypes = (child :> childType) @@ @ ] }

childField(h, nodeName, child, body) ==
    childFieldOf(h, child, body, uniqueGoIdent(body.hasName, h[child].Name),
                 nodeName \o << "_" >> \o goIdent(h[child].Name),
                 getKnownType(h, body.knownTypes, child))

RECURSIVE childFields(_, _, _, _, _)
childFields(h, n, nodeName, i, bodies) ==
    IF Computed(bodies) /\ i > Len(h[n].Children) THEN bodies
    ELSE childFields(h, n, nodeName, i + 1,
             UNION { childField(h, nodeName, h[n].Children[i], b) : b \in bodies })

\* generate(buf, n, knownTypes), from a state st = [buf, knownTypes]: the
\* states it can end in.
RECURSIVE generate(_, _, _)
RECURSIVE generateNamed(_, _, _, _)
RECURSIVE generateChildren(_, _, _, _, _)
generate(h, n, st) == generateNamed(h, n, st, nodeNameOf(h, n))

\* generate once nodeName is computed.
generateNamed(h, n, st, nodeName) ==
    LET start == [ hasName |-> {}, fields |-> << >>, skipChildGen |-> << >>,
                   knownTypes |-> st.knownTypes ]
    IN  UNION { generateChildren(h, n, b.skipChildGen, 1,
                    { [ buf |-> Append(st.buf, [ name |-> nodeName, node |-> n,
                                                 fields |-> b.fields ]),
                        knownTypes |-> b.knownTypes ] })
                : b \in childFields(h, n, nodeName, 1,
                            { attrFields(h, n, 1,
                                  contentField(h, n, xmlNameField(h, n, start))) }) }

\* generate, the final loop over n.Children from index i on.
generateChildren(h, n, skipChildGen, i, sts) ==
    IF Computed(sts) /\ i > Len(h[n].Children) THEN sts
    ELSE generateChildren(h, n, skipChildGen, i + 1,
             IF skipChildGen[i] THEN sts
             ELSE UNION { generate(h, h[n].Children[i], st) : st \in sts })

\* format.Source(buf) returns an error when buf is not syntactically valid Go.
\* Of what generate can write that is: a declaration without a name
\* ("type  struct {"), and a field line without an identifier whose type is a
\* slice (a field without identifier is an embedded field, which has to be a
\* type name).
formatSourceFails(buf) ==
    \E r \in 1..Len(buf) :
        \/ buf[r].name = << >>
        \/ \E f \in 1..Len(buf[r].fields) :
               buf[r].fields[f].id = << >> /\ buf[r].fields[f].slice

\* The loop over root.Children of GenerateGoCodeBytes, from index i on.
RECURSIVE generateTopLevel(_, _, _, _)
generateTopLevel(h, root, i, sts) ==
    IF Computed(sts) /\ i > Len(h[root].Children) THEN sts
    ELSE generateTopLevel(h, root, i + 1,
             UNION { generate(h, h[root].Children[i], st) : st \in sts })

\* GenerateGoCodeBytes after root := copyNode(c.root); sortNode(root), sorted
\* being the heap with the sorted copy at root.
generateSorted(sorted, root) ==
    { [ heap |-> sorted, root |-> root, buf |-> st.buf, knownTypes |-> st.knownTypes,
        panic |-> formatSourceFails(st.buf),
        code |-> IF formatSourceFails(st.buf) THEN << >> ELSE st.buf ]
      : st \in generateTopLevel(sorted, root, 1,
                                { [ buf |-> << >>, knownTypes |-> << >> ] }) }

\* GenerateGoCodeBytes on the tree at root: the results it can have.  Each is
\* the heap with the sorted copy, the root of the copy, the buffer, the
\* knownTypes map at the end, whether the call panicked, and the declarations
\* returned.
GenerateGoCodeBytes(h, root) ==
    LET c == copyNode(h, root) IN generateSorted(sortNode(c.h, c.id), c.id)

----------------------------------------------------------------------------
(* The inputs: what xml.Decoder.Decode makes of the bytes it reads.        *)
(*                                                                         *)
(* A decoded element has the local Name, the Attrs in document order, the  *)
(* inner XML as Content and the child elements as Nodes.  In Content every *)
(* run of text is abbreviated to "t" and every child element to "<".       *)

El(name, attrs, content, nodes) ==
    [ Name |-> name, Attrs |-> attrs, Content |-> content, Nodes |-> nodes ]

At(name, value) == [ Name |-> name, Value |-> value ]

Leaf(name) == El(name, << >>, << >>, << >>)

Indented == << " ", "<", " " >>

nName == << "n", "a", "m", "e" >>

nEmpty == << "e", "m", "p", "t", "y" >>

nSub == << "s", "u", "b" >>

nContent == << "c", "o", "n", "t", "e", "n", "t" >>

TwoC == El(<< "p" >>, << >>, << "<", "<" >>, << Leaf(<< "c" >>), Leaf(<< "c" >>) >>)

\* <r name="John" empty=""> <sub>text</sub> <p><c/><c/></p> <q><c/></q> </r>
Doc1 ==
    El(<< "r" >>, << At(nName, "John"), At(nEmpty, "") >>, Indented,
       << El(nSub, << >>, << "t" >>, << >>),
          TwoC,
          El(<< "q" >>, << >>, << "<" >>, << Leaf(<< "c" >>) >>) >>)

\* <r empty="x" name="" b="1" a="1">text <sub/> <q><c/><c/></q> </r>
Doc2 ==
    El(<< "r" >>,
       << At(nEmpty, "x"), At(nName, ""), At(<< "b" >>, "1"), At(<< "a" >>, "1") >>,
       << "t", " ", "<", " " >>,
       << Leaf(nSub), [ TwoC EXCEPT !.Name = << "q" >> ] >>)

\* <r name="John" XMLName="v" content="w" x:1="v">
\*   <name>text</name> <name_>text</name_> <content/> <a x="1"/> <A y="1"/>
\* </r>   (the local name of x:1 is 1)
Doc3 ==
    El(<< "r" >>,
       << At(nName, "John"), At(XMLNameIdent, "v"), At(nContent, "w"), At(<< "1" >>, "v") >>,
       Indented,
       << El(nName, << >>, << "t" >>, << >>),
          El(nName \o << "_" >>, << >>, << "t" >>, << >>),
          Leaf(nContent),
          El(<< "a" >>, << At(<< "x" >>, "1") >>, << >>, << >>),
          El(<< "A" >>, << At(<< "y" >>, "1") >>, << >>, << >>) >>)

\* <x:1/>   (the local name is 1)
Doc4 == Leaf(<< "1" >>)

\* <r name="John"><sub>   : the input ends inside the document.  Decode
\* returns an error; what it had filled in by then is in n.
Doc5 ==
    El(<< "r" >>, << At(nName, "John") >>, << >>, << >>)

Inputs ==
    << [ n |-> Doc1, err |-> FALSE ], [ n |-> Doc2, err |-> FALSE ],
       [ n |-> Doc3, err |-> FALSE ], [ n |-> Doc4, err |-> FALSE ],
       [ n |-> Doc5, err |-> TRUE ] >>

\* xml.NewDecoder(r).Decode(&n) on the input numbered i.
Decode(i) == Inputs[i]

----------------------------------------------------------------------------
(* The state machine.                                                      *)
(*   heap   the NodeDesc values allocated so far                           *)
(*   conv   the converters made so far: conv[c] is the root of converter c *)
(*   docs   for each converter the inputs its tree was built from, in      *)
(*          order (history; the code does not keep it)                     *)
(*   calls  the number of ParseXML* calls made                             *)
(*   out    the last call and what it returned                             *)

Convs == 1..Len(conv)

\* New(): the heap with the root of the new converter, and the root.
New(h) == Alloc(h, NodeDesc(Nil, << >>))

\* Two converters, a := New() and b := New().
Init ==
    /\ heap = New(New(<< >>).h).h
    /\ conv = << New(<< >>).id, New(New(<< >>).h).id >>
    /\ docs = << << >>, << >> >>
    /\ calls = 0
    /\ out = [ op |-> "New" ]

\* parseXMLReader that looks at the error only after parse.
parseXMLReaderLate(h, root, i) ==
    LET d == Decode(i)
        p == parse(h, d.n, root)
    IN  IF d.err
        THEN [ h |-> p.h, node |-> Nil, err |-> TRUE ]
        ELSE [ h |-> [ p.h EXCEPT ![p.id].Parent = Nil ], node |-> p.id, err |-> FALSE ]

\* ParseXMLReader after node := c.parse(n, c.root), p being the node made.
parsedNode(p) ==
    [ h |-> [ p.h EXCEPT ![p.id].Parent = Nil ], node |-> p.id, err |-> FALSE ]

\* c.ParseXMLReader(r), r holding input i: the heap and the returned
\* (node, err) pair.
parseXMLReader(h, root, i) ==
    IF Decode(i).err
    THEN [ h |-> h, node |-> Nil, err |-> TRUE ]
    ELSE parsedNode(parse(h, Decode(i).n, root))

\* ParseXMLString, ParseXMLBytes and ParseXMLFile end in ParseXMLReader.
ParseXMLReader(c, i) ==
    /\ calls < MaxParse
    /\ LET r == parseXMLReader(heap, conv[c], i)
       IN  /\ heap' = r.h
           /\ docs' = IF r.err THEN docs ELSE [ docs EXCEPT ![c] = Append(@, i) ]
           /\ out' = [ op |-> "ParseXML", conv |-> c, input |-> i,
                       node |-> r.node, err |-> r.err ]
    /\ calls' = calls + 1
    /\ UNCHANGED conv

\* c := Combine(a, b), once, of any two of the converters made by New()
Combine(a, b) ==
    /\ Len(conv) = 2
    /\ LET r == combine(heap, conv[a], conv[b])
       IN  /\ heap' = r.h
           /\ conv' = Append(conv, r.root)
           /\ docs' = Append(docs, docs[a] \o docs[b])
           /\ out' = [ op |-> "Combine", a |-> a, b |-> b, conv |-> Len(conv) + 1,
                       panic |-> r.panic ]
    /\ UNCHANGED calls

\* c.GenerateGoCodeBytes(packageName); GenerateGoCodeString, -Writer and
\* -File return or write its result.  The sorted copy is unreachable after
\* the call, so heap stays as it is; out keeps the copy.
GenerateGoCode(c) ==
    /\ \E g \in GenerateGoCodeBytes(heap, conv[c]) :
           out' = [ op |-> "GenerateGoCode", conv |-> c, heap |-> g.heap, root |-> g.root,
                    buf |-> g.buf, knownTypes |-> g.knownTypes, panic |-> g.panic,
                    code |-> g.code ]
    /\ UNCHANGED << heap, conv, docs, calls >>

Next ==
    \/ \E c \in Convs, i \in 1..Len(Inputs) : ParseXMLReader(c, i)
    \/ \E a \in Convs, b \in Convs : Combine(a, b)
    \/ \E c \in Convs : GenerateGoCode(c)

Spec == Init /\ [][Next]_vars

----------------------------------------------------------------------------
(* Notions the properties are stated with.                                 *)

\* The nodes of the tree at n.
RECURSIVE Reach(_, _)
Reach(h, n) ==
    { n } \cup UNION { Reach(h, h[n].Children[i]) : i \in 1..Len(h[n].Children) }

IsPrefix(s, t) == Len(s) <= Len(t) /\ SubSeq(t, 1, Len(s)) = s

\* The element names from the top-level element down to n.
RECURSIVE PathOf(_, _)
PathOf(h, n) ==
    IF h[n].Parent = Nil THEN << h[n].Name >>
    ELSE Append(PathOf(h, h[n].Parent), h[n].Name)

\* The concatenation of the sequences in the sequence ss.
RECURSIVE Flatten(_)
Flatten(ss) == IF Len(ss) = 0 THEN << >> ELSE ss[1] \o Flatten(Tail(ss))

\* The elements of the decoded document n at the path p, in document order.
RECURSIVE InstancesAt(_, _)
InstancesAt(n, p) ==
    IF n.Name # p[1] THEN << >>
    ELSE IF Len(p) = 1 THEN << n >>
    ELSE Flatten([ i \in 1..Len(n.Nodes) |-> InstancesAt(n.Nodes[i], Tail(p)) ])

\* The elements at the path p of the documents ds, in order.
InstancesIn(ds, p) == Flatten([ k \in 1..Len(ds) |-> InstancesAt(Decode(ds[k]).n, p) ])

\* s without the later occurrences of its elements.
RECURSIVE FirstSeen(_)
FirstSeen(s) ==
    IF Len(s) = 0 THEN << >>
    ELSE LET init == FirstSeen(SubSeq(s, 1, Len(s) - 1))
         IN  IF s[Len(s)] \in Range(init) THEN init ELSE Append(init, s[Len(s)])

\* The names of the attributes with a non-empty value of the element e.
NonEmptyAttrs(e) ==
    LET keep == { i \in 1..Len(e.Attrs) : e.Attrs[i].Value # "" }
        RECURSIVE pick(_)
        pick(i) == IF i > Len(e.Attrs) THEN << >>
                   ELSE (IF i \in keep THEN << e.Attrs[i].Name >> ELSE << >>) \o pick(i + 1)
    IN  pick(1)

\* The attribute names seen with a non-empty value at the path p of the
\* documents ds, in the order they were first seen.
SeenAttrs(ds, p) ==
    LET es == InstancesIn(ds, p)
    IN  FirstSeen(Flatten([ k \in 1..Len(es) |-> NonEmptyAttrs(es[k]) ]))

\* A fresh converter fed the inputs ds[i..] in order (the failing ones
\* included): the heap and its root.
RECURSIVE ingestFrom(_, _, _, _)
ingestFrom(h, root, ds, i) ==
    IF Computed(h) /\ i > Len(ds) THEN h
    ELSE ingestFrom(parseXMLReader(h, root, ds[i]).h, root, ds, i + 1)

ingestInto(c, ds) == [ h |-> ingestFrom(c.h, c.id, ds, 1), root |-> c.id ]

Ingest(h, ds) == ingestInto(New(h), ds)

\* all := New(); for each input: c := New(); c.ParseXML(input);
\* all = Combine(all, c)  -- from input i on, all being the converter so far.
foldOne(all, one) ==
    IF Computed(one) THEN combine(one.h, all.root, one.root) ELSE all

RECURSIVE foldFrom(_, _, _)
foldFrom(all, ds, i) ==
    IF all.panic \/ i > Len(ds) THEN all
    ELSE foldFrom(foldOne(all, Ingest(all.h, << ds[i] >>)), ds, i + 1)

foldInto(all, ds) == foldFrom([ h |-> all.h, root |-> all.id, panic |-> FALSE ], ds, 1)

Fold(h, ds) == foldInto(New(h), ds)

\* x and y are sameStructure and agree on IsArray, and so are their
\* corresponding children, recursively.
RECURSIVE SameTree(_, _, _)
SameTree(h, x, y) ==
    /\ sameStructure(h, x, y)
    /\ h[x].IsArray = h[y].IsArray
    /\ \A i \in 1..Len(h[x].Children) : SameTree(h, h[x].Children[i], h[y].Children[i])

\* The text of a buffer: its declarations without the nodes they were made for.
TextOf(buf) ==
    [ r \in 1..Len(buf) |->
        [ name |-> buf[r].name,
          fields |-> [ f \in 1..Len(buf[r].fields) |->
                         [ id |-> buf[r].fields[f].id, kind |-> buf[r].fields[f].kind,
                           slice |-> buf[r].fields[f].slice, type |-> buf[r].fields[f].type,
                           tag |-> buf[r].fields[f].tag ] ] ] ]

\* What GenerateGoCodeString can return for the tree at root: the text, or a panic.
Outputs(h, root) ==
    { [ panic |-> g.panic, text |-> TextOf(g.code) ] : g \in GenerateGoCodeBytes(h, root) }

\* The converter t = [h, root] has the outputs outs.
HasOutputs(t, outs) == Computed(t) /\ Outputs(t.h, t.root) = outs

Generated == out.op = "GenerateGoCode"

Emitted == Generated /\ ~out.panic

\* The permutations of the sequence s.
Perms(s) ==
    { [ i \in 1..Len(s) |-> s[f[i]] ] :
        f \in { g \in [ 1..Len(s) -> 1..Len(s) ] : \A i, j \in 1..Len(s) : g[i] = g[j] => i = j } }

\* The fields of kind k of a declaration, in order.
FieldsOfKind(rec, k) ==
    LET RECURSIVE pick(_)
        pick(i) == IF i > Len(rec.fields) THEN << >>
                   ELSE (IF rec.fields[i].kind = k THEN << rec.fields[i] >> ELSE << >>)
                        \o pick(i + 1)
    IN  pick(1)

----------------------------------------------------------------------------
(* The properties.                                                         *)

\* What a step may do to the nodes that exist: the name stays, a flag that is
\* set stays set, attributes and children are only appended.
Accumulates ==
    \A id \in 1..Len(heap) :
        /\ id <= Len(heap')
        /\ heap'[id].Name = heap[id].Name
        /\ heap[id].IsArray => heap'[id].IsArray
        /\ heap[id].HasCharacterData => heap'[id].HasCharacterData
        /\ IsPrefix(heap[id].Attributes, heap'[id].Attributes)
        /\ IsPrefix(heap[id].Children, heap'[id].Children)

\* C1: monotone accumulation.  Every step, an ingestion in particular, keeps
\* each node as a child of its parent, keeps IsArray and HasCharacterData
\* once true, keeps every recorded attribute, and keeps the order of the
\* recorded attributes and children: new ones are appended.
C1_MonotoneAccumulation == [][Accumulates]_vars

\* C1 witness: a second document was ingested into a converter and left its
\* top-level node with three attributes and more than three children.
C1_Witness ==
    /\ out.op = "ParseXML" /\ ~out.err
    /\ Len(docs[out.conv]) >= 2
    /\ Len(heap[out.node].Attributes) >= 3
    /\ Len(heap[out.node].Children) > 3

\* The tree at c compared with the tree of joint, a converter fed the
\* documents ds, and with fold, the fold of Combine over one converter per
\* document.
JointEqualsFold(joint, fold, c) ==
    /\ ~fold.panic
    /\ SameTree(fold.h, c, joint.root)
    /\ SameTree(fold.h, fold.root, joint.root)
    /\ Outputs(fold.h, c) = Outputs(fold.h, joint.root)
    /\ Outputs(fold.h, fold.root) = Outputs(fold.h, joint.root)

JointEquals(joint, ds, c) == JointEqualsFold(joint, Fold(joint.h, ds), c)

\* The tree of the converter made by the last Combine, compared with the
\* tree of one converter fed the documents of a and then those of b, and with
\* the fold of Combine over one converter per document.
MergeEqualsJoint ==
    JointEquals(Ingest(heap, docs[out.a] \o docs[out.b]), docs[out.a] \o docs[out.b],
                conv[out.conv])

\* C2: merge equals joint ingestion.  After c := Combine(a, b) the tree of c
\* and the tree of a converter fed the documents of a followed by those of b
\* are sameStructure and agree on IsArray at every corresponding node, and
\* generate the same output; so does the fold of Combine, from an empty
\* converter, over one converter per document.
C2_MergeEqualsJointIngestion == out.op = "Combine" => ~out.panic /\ MergeEqualsJoint

\* C2 witness: two converters fed different documents were combined.
C2_Witness ==
    /\ out.op = "Combine" /\ out.a # out.b
    /\ docs[out.a] # << >> /\ docs[out.b] # << >>
    /\ docs[out.a] # docs[out.b]

\* No node belongs to the trees of two converters.
NoSharedNode ==
    \A c1, c2 \in Convs :
        c1 # c2 => Reach(heap, conv[c1]) \cap Reach(heap, conv[c2]) = {}

\* A Combine step leaves every existing node and converter as it was, and
\* the tree of the result, parent links included, lies in new nodes.
CombineFrame ==
    (out'.op = "Combine" /\ Len(conv') = Len(conv) + 1) =>
        /\ \A id \in 1..Len(heap) : heap'[id] = heap[id]
        /\ \A c \in Convs : conv'[c] = conv[c]
        /\ LET new == Reach(heap', conv'[Len(conv')])
           IN  /\ new \cap (1..Len(heap)) = {}
               /\ \A n \in new : heap'[n].Parent \in new \cup { Nil }

\* An ingestion into a converter changes no node outside this converter's tree.
ParseFrame ==
    (out'.op = "ParseXML" /\ calls' = calls + 1) =>
        \A id \in 1..Len(heap) :
            id \notin Reach(heap, conv[out'.conv]) => heap'[id] = heap[id]

\* C3: non-destructive merge.  Combine(a, b) leaves the trees of a and b as
\* they were and its result shares no node with them; an ingestion into one
\* converter changes the tree of that converter only.
C3_NonDestructiveMerge == []NoSharedNode /\ [][CombineFrame /\ ParseFrame]_vars

\* C3 witness: after c := Combine(a, b) of a non-empty a, a document was
\* ingested into a.
C3_Witness ==
    /\ Len(conv) = 3
    /\ out.op = "ParseXML" /\ ~out.err /\ out.conv = 1
    /\ Len(docs[3]) = 1 /\ Len(docs[1]) = 2

\* C4 (as claimed): no two struct declarations of one generation run have
\* the same type name.
C4_TypeNamesUnique ==
    Emitted =>
        \A i, j \in 1..Len(out.code) : i # j => out.code[i].name # out.code[j].name

\* C5 (as claimed): the field identifiers of one struct body, XMLName
\* included, are pairwise distinct.
C5_FieldIdentifiersUnique ==
    Emitted =>
        \A r \in 1..Len(out.code) :
            \A i, j \in 1..Len(out.code[r].fields) :
                i # j => out.code[r].fields[i].id # out.code[r].fields[j].id

\* The body a node's own struct has: the content field, the attribute
\* fields in order, and the child fields in order, each single or a slice and
\* with the body of its own type.
RECURSIVE BodyOf(_, _)
BodyOf(h, n) ==
    [ content |-> h[n].HasCharacterData,
      attrs |-> h[n].Attributes,
      children |-> [ i \in 1..Len(h[n].Children) |->
                       [ tag |-> h[h[n].Children[i]].Name,
                         slice |-> h[h[n].Children[i]].IsArray,
                         body |-> BodyOf(h, h[n].Children[i]) ] ] ]

\* The nodes generate compares: the children of the structs of the sorted copy.
Nested(h, root) == { n \in Reach(h, root) : n # root /\ h[n].Parent # Nil }

\* C6 (as claimed): sameStructure(x, y) iff the struct bodies of x and y are
\* the same, the single-or-slice kind of the child fields included.
C6_SameStructureIffSameBody ==
    Generated =>
        \A x, y \in Nested(out.heap, out.root) :
            sameStructure(out.heap, x, y) <=> BodyOf(out.heap, x) = BodyOf(out.heap, y)

\* The tags of a sequence of fields.
Tags(fs) == [ i \in 1..Len(fs) |-> fs[i].tag ]

Sorted(names) == \A i, j \in 1..Len(names) : i < j => StrLess(names[i], names[j])

\* C7: deterministic, order-independent emission.  A generation run has one
\* possible result, whatever the iteration order of the known-types map; a
\* converter fed the same documents in any other order generates the same
\* output; and in every struct the attribute fields and the child fields
\* are in increasing order of their xml names.
C7_DeterministicEmission ==
    Generated =>
        /\ Outputs(heap, conv[out.conv]) = { [ panic |-> out.panic, text |-> TextOf(out.code) ] }
        /\ out.conv <= 2 =>
               \A ds \in Perms(docs[out.conv]) :
                   HasOutputs(Ingest(heap, ds),
                              { [ panic |-> out.panic, text |-> TextOf(out.code) ] })
        /\ \A r \in 1..Len(out.buf) :
               /\ Sorted(Tags(FieldsOfKind(out.buf[r], "attr")))
               /\ Sorted(Tags(FieldsOfKind(out.buf[r], "child")))

\* C7 witness: the output of a converter whose two documents record the
\* attributes of one element in different orders, with a reused type in it.
C7_Witness ==
    /\ Emitted /\ out.conv <= 2
    /\ Len(docs[out.conv]) = 2
    /\ LET top == heap[conv[out.conv]].Children
       IN  /\ Len(top) = 1
           /\ heap[top[1]].Attributes # SortStrings(heap[top[1]].Attributes)
           /\ Len(heap[top[1]].Attributes) >= 3
    /\ \E r \in 1..Len(out.code) :
           \E f \in 1..Len(out.code[r].fields) : out.code[r].fields[f].reused

\* C8: a failed ingestion changes nothing.  A ParseXML* call that returns an
\* error returns no node and leaves every node and converter as before.
C8_FailedIngestionChangesNothing ==
    [][(out'.op = "ParseXML" /\ out'.err) =>
           /\ out'.node = Nil
           /\ heap' = heap /\ conv' = conv /\ docs' = docs]_vars

\* C8 witness: a ParseXML* call on a converter with a document in its tree
\* returned an error.
C8_Witness ==
    /\ out.op = "ParseXML" /\ out.err
    /\ docs[out.conv] # << >>
    /\ Len(heap[conv[out.conv]].Children) > 0

\* The names in the tree at root whose identifier is empty.
EmptyIdentNames(h, root) ==
    { h[n].Name : n \in { m \in Reach(h, root) \ { root } : goIdent(h[m].Name) = << >> } }
    \cup UNION { { a \in Range(h[n].Attributes) : goIdent(a) = << >> } : n \in Reach(h, root) }

\* C9 (as claimed): when a name of the tree has an empty identifier the
\* generation ends with an error, and no struct it returns has an empty
\* name, an empty segment in its qualified name, or a field with an empty
\* identifier.
C9_EmptyIdentifiersReported ==
    Generated =>
        /\ EmptyIdentNames(out.heap, out.root) # {} => out.panic
        /\ \A r \in 1..Len(out.code) :
               /\ out.code[r].name # << >>
               /\ \A nm \in Range(PathOf(out.heap, out.code[r].node)) : goIdent(nm) # << >>
               /\ \A f \in 1..Len(out.code[r].fields) : out.code[r].fields[f].id # << >>

\* C10: attribute recording.  The attribute list of every schema node is the
\* list of the attribute names that the elements at its position carried
\* with a non-empty value in the converter's documents, in first-seen order;
\* and the attribute fields of a generated struct are for these names.
C10_AttributeRecording ==
    /\ \A c \in Convs :
           \A n \in Reach(heap, conv[c]) \ { conv[c] } :
               heap[n].Attributes = SeenAttrs(docs[c], PathOf(heap, n))
    /\ Generated =>
           \A r \in 1..Len(out.buf) :
               Range(Tags(FieldsOfKind(out.buf[r], "attr")))
                   = Range(SeenAttrs(docs[out.conv], PathOf(out.heap, out.buf[r].node)))

\* C10 witness: the struct of an element that carried one attribute with an
\* empty value only and others with a value, in two documents.
C10_Witness ==
    /\ Emitted /\ docs[out.conv] = << 1, 3 >>
    /\ nEmpty \in { Decode(1).n.Attrs[i].Name : i \in 1..Len(Decode(1).n.Attrs) }
    /\ \E r \in 1..Len(out.code) :
           /\ out.code[r].name = << "R" >>
           /\ Tags(FieldsOfKind(out.code[r], "attr"))
                  = << << "1" >>, XMLNameIdent, nContent, nName >>

\* One of the elements es has more than one direct child element named name.
RepeatedAmong(es, name) ==
    \E k \in 1..Len(es) :
        Cardinality({ i \in 1..Len(es[k].Nodes) : es[k].Nodes[i].Name = name }) > 1

\* In the documents ds an element at the parent position of the path p has
\* more than one direct child element with the last name of p.
Repeated(ds, p) ==
    /\ Len(p) > 1
    /\ RepeatedAmong(InstancesIn(ds, SubSeq(p, 1, Len(p) - 1)), p[Len(p)])

\* The child fields of the declarations in buf.
ChildFields(buf) ==
    UNION { { buf[r].fields[f] : f \in { g \in 1..Len(buf[r].fields) :
                                            buf[r].fields[g].kind = "child" } }
            : r \in 1..Len(buf) }

\* C11: repetition detection.  IsArray of a schema node is true iff in one of
\* the converter's documents an element at the parent position had more than
\* one direct child element with the node's name; and the field generated
\* for a node is a slice iff its IsArray is true, for a reused type too.
C11_RepetitionDetection ==
    /\ \A c \in Convs :
           \A n \in Reach(heap, conv[c]) \ { conv[c] } :
               heap[n].IsArray <=> Repeated(docs[c], PathOf(heap, n))
    /\ Generated =>
           \A f \in ChildFields(out.buf) :
               /\ f.slice <=> out.heap[f.node].IsArray
               /\ f.slice <=> Repeated(docs[out.conv], PathOf(out.heap, f.node))

\* C11 witness: an output with a slice field of a reused type, from a
\* document that repeats a child element.
C11_Witness ==
    /\ Emitted /\ 2 \in Range(docs[out.conv])
    /\ \E f \in ChildFields(out.code) : f.reused /\ f.slice

\* The top-level nodes of the tree at root: the children of the root.
TopLevel(h, root) == Range(h[root].Children)

\* The declarations of buf made for the node n.
RecordsOf(buf, n) == { r \in 1..Len(buf) : buf[r].node = n }

\* C12: root identity only at top level.  In every tree the nodes without
\* Parent are the top-level ones; a generated struct has the XMLName field,
\* once and with the element name in its tag, iff its node is top-level; and
\* every top-level node has exactly one struct of its own.
C12_RootIdentityOnlyAtTopLevel ==
    /\ \A c \in Convs :
           \A n \in Reach(heap, conv[c]) \ { conv[c] } :
               heap[n].Parent = Nil <=> n \in TopLevel(heap, conv[c])
    /\ Generated =>
           /\ \A r \in 1..Len(out.buf) :
                  /\ Len(FieldsOfKind(out.buf[r], "xmlname")) =
                         IF out.buf[r].node \in TopLevel(out.heap, out.root) THEN 1 ELSE 0
                  /\ \A f \in Range(FieldsOfKind(out.buf[r], "xmlname")) :
                         f.tag = out.heap[out.buf[r].node].Name
           /\ \A n \in TopLevel(out.heap, out.root) :
                  Cardinality(RecordsOf(out.buf, n)) = 1

\* C12 witness: an output of the converter made by Combine from two
\* converters with a document each, with a nested struct in it.
C12_Witness ==
    /\ Emitted /\ out.conv = 3
    /\ docs[1] # << >> /\ docs[2] # << >> /\ Len(docs[3]) = 2
    /\ \E r \in 1..Len(out.code) : out.code[r].node \notin TopLevel(out.heap, out.root)

\* The identifier base followed by k underscores.
Underscored(base, k) == base \o [ i \in 1..k |-> "_" ]

\* The members of the struct of the node n in the order the claim gives them
\* identifiers: the content, the attributes and the children in stored order,
\* each with the kind of its field and its name.
MembersOf(h, n) ==
    (IF h[n].HasCharacterData THEN << [ kind |-> "content", name |-> ContentName ] >>
     ELSE << >>)
    \o [ i \in 1..Len(h[n].Attributes) |-> [ kind |-> "attr", name |-> h[n].Attributes[i] ] ]
    \o [ i \in 1..Len(h[n].Children) |->
           [ kind |-> "child", name |-> h[h[n].Children[i]].Name ] ]

IsMember(f) == f.kind # "xmlname"

\* id is base with the smallest number of underscores that is not in earlier.
SmallestFree(id, base, earlier) ==
    \E k \in 0..Cardinality(earlier) :
        /\ id = Underscored(base, k)
        /\ id \notin earlier
        /\ \A j \in 0..(k - 1) : Underscored(base, j) \in earlier

\* The fields fs are the fields of the members ms, identifiers assigned in order.
AssignedInOrder(fs, ms) ==
    /\ Len(fs) = Len(ms)
    /\ \A i \in 1..Len(fs) :
           /\ fs[i].kind = ms[i].kind
           /\ SmallestFree(fs[i].id, goIdent(ms[i].name), { fs[j].id : j \in 1..(i - 1) })

\* C13: collision resolution order.  In every struct body the fields after
\* XMLName are the content field, the attributes in stored order and the
\* children in stored order, and the identifier of each is its sanitized
\* name followed by the smallest number of underscores that makes it differ
\* from the identifiers of the fields before it.
C13_CollisionResolutionOrder ==
    Generated =>
        \A r \in 1..Len(out.buf) :
            AssignedInOrder(SelectSeq(out.buf[r].fields, IsMember),
                            MembersOf(out.heap, out.buf[r].node))

\* C13 witness: a struct with content, an attribute content and a child
\* content, and with an attribute name and children name and name_.
C13_Witness ==
    /\ Emitted
    /\ \E r \in 1..Len(out.code) :
           /\ ContentName \in { f.id : f \in Range(FieldsOfKind(out.code[r], "content")) }
           /\ { ContentName \o << "_" >>, << "N", "a", "m", "e" >> }
                  \subseteq { f.id : f \in Range(FieldsOfKind(out.code[r], "attr")) }
           /\ { ContentName \o << "_", "_" >>, << "N", "a", "m", "e", "_" >>,
                << "N", "a", "m", "e", "_", "_" >> }
                  \subseteq { f.id : f \in Range(FieldsOfKind(out.code[r], "child")) }

\* The node of the tree at root that has the path p.
NodeAt(h, root, p) == CHOOSE n \in Reach(h, root) \ { root } : PathOf(h, n) = p

\* The names of the children of n in stored order.
ChildNames(h, n) == [ i \in 1..Len(h[n].Children) |-> h[h[n].Children[i]].Name ]

\* In the result g of a generation every struct has its attribute fields and
\* its child fields in increasing order of their xml names.
CanonicalOrder(g) ==
    \A r \in 1..Len(g.buf) :
        /\ Sorted(Tags(FieldsOfKind(g.buf[r], "attr")))
        /\ Sorted(Tags(FieldsOfKind(g.buf[r], "child")))

\* Every struct of g, a result of a generation on the tree n is in, has its
\* attribute fields and its child fields in the order the tree stores them.
FirstSeenOrderOf(g, h, r, n) ==
    /\ Tags(FieldsOfKind(g.buf[r], "attr")) = h[n].Attributes
    /\ Tags(FieldsOfKind(g.buf[r], "child")) = ChildNames(h, n)

FirstSeenOrder(g, h, root) ==
    \A r \in 1..Len(g.buf) :
        FirstSeenOrderOf(g, h, r, NodeAt(h, root, PathOf(g.heap, g.buf[r].node)))

\* C14 (as claimed): both emission orders are available.  Of the results a
\* generation on a converter can be made to give, one is in canonical order
\* and one is in the order ingestion recorded.
C14_BothEmissionOrders ==
    \A c \in Convs :
        /\ \E g \in GenerateGoCodeBytes(heap, conv[c]) : CanonicalOrder(g)
        /\ \E g \in GenerateGoCodeBytes(heap, conv[c]) : FirstSeenOrder(g, heap, conv[c])

\* once is what c.ParseXMLReader returned for input i on the converter with
\* the root `root`, the heap it left included: the same call made again
\* returns the same and leaves every node as the first call left it.
IngestedAgain(once, root, i) == parseXMLReader(once.h, root, i) = once

\* Every converter ingests every document idempotently.
ReingestionIdempotent ==
    \A c \in Convs :
        \A i \in 1..Len(Inputs) :
            IngestedAgain(parseXMLReader(heap, conv[c], i), conv[c], i)

\* C15: idempotent re-ingestion.  Always, for every converter and every
\* document, ingesting the document a second time right after the first
\* changes no node: the tree after two ingestions is the tree after one,
\* node for node, with the same flags, attributes and children, and so
\* generates the same output.
C15_IdempotentReingestion == []ReingestionIdempotent

\* C15 witness: a converter with a document in its tree ingested another
\* document twice in a row.
C15_Witness ==
    /\ out.op = "ParseXML" /\ ~out.err
    /\ Len(docs[out.conv]) >= 2
    /\ docs[out.conv][Len(docs[out.conv])] = docs[out.conv][Len(docs[out.conv]) - 1]
    /\ Len(heap[out.node].Children) >= 3

\* No element occurs twice in the sequence s.
NoDuplicates(s) == \A i, j \in 1..Len(s) : s[i] = s[j] => i = j

\* In the tree at root no node has two children with one name or an
\* attribute twice.
WellFormed(h, root) ==
    \A n \in Reach(h, root) :
        /\ NoDuplicates(ChildNames(h, n))
        /\ NoDuplicates(h[n].Attributes)

\* C16: tree well-formedness.  In the tree of every converter, made by New,
\* ingestions and Combine, and in the sorted copy a generation works on, no
\* two children of a node have the same name and no attribute list holds a
\* name twice.
C16_TreeWellFormed ==
    /\ \A c \in Convs : WellFormed(heap, conv[c])
    /\ Generated => WellFormed(out.heap, out.root)

\* C16 witness: a generation on the converter made by Combine of two
\* converters whose documents share element and attribute names.
C16_Witness ==
    /\ Generated /\ out.conv = 3
    /\ docs[1] # << >> /\ docs[2] # << >> /\ docs[1] # docs[2]
    /\ \E n \in TopLevel(out.heap, out.root) :
           /\ Len(out.heap[n].Children) > 3
           /\ Len(out.heap[n].Attributes) >= 3
    /\ Len(heap[conv[1]].Children) = 1 /\ Len(heap[conv[2]].Children) = 1
    /\ heap[heap[conv[1]].Children[1]].Name = heap[heap[conv[2]].Children[1]].Name

----------------------------------------------------------------------------
(* The standalone program (src/main.go): its goIdent.                      *)

\* The length of the names goIdent is applied to.
MaxIdentLen == 3

\* A letter, a digit, the underscore and a character goIdent drops.
IdentChars == { "a", "1", "_", "-" }

\* The names: the strings over IdentChars of at most MaxIdentLen characters.
Names == UNION { [ 1..k -> IdentChars ] : k \in 0..MaxIdentLen }

\* goIdent of src/main.go, the loop
\*   for len(r) >= 0 && unicode.IsDigit(r[0]) { r = r[1:] }
\* len(r) >= 0 holds always, and r[0] of an empty r panics (index out of range).
RECURSIVE main_stripLeadingDigits(_)
main_stripLeadingDigits(r) ==
    IF Len(r) = 0 THEN [ panic |-> TRUE, r |-> r ]
    ELSE IF IsDigit(r[1]) THEN main_stripLeadingDigits(Drop(r, 1))
    ELSE [ panic |-> FALSE, r |-> r ]

\* goIdent of src/main.go once the loop has ended with d.
main_capitalize(d) ==
    IF d.panic THEN [ panic |-> TRUE, result |-> << >> ]
    ELSE [ panic |-> FALSE,
           result |-> IF Len(d.r) > 0 THEN << ToUpper(d.r[1]) >> \o Tail(d.r) ELSE d.r ]

\* goIdent(s) of src/main.go: whether the call panics, and the string returned.
main_goIdent(s) == main_capitalize(main_stripLeadingDigits(KeepIdentRunes(s)))

\* A name the program is about to sanitize.
InitMain ==
    /\ heap = << >> /\ conv = << >> /\ docs = << >> /\ calls = 0
    /\ \E s \in Names : out = [ op |-> "name", s |-> s ]

\* The call goIdent(s) of convert.
GoIdentMain ==
    /\ out.op = "name"
    /\ out' = [ op |-> "goIdent", s |-> out.s,
                panic |-> main_goIdent(out.s).panic, result |-> main_goIdent(out.s).result ]
    /\ UNCHANGED << heap, conv, docs, calls >>

NextMain == GoIdentMain

SpecMain == InitMain /\ [][NextMain]_vars

\* C17 (as claimed): goIdent of the standalone program returns for every
\* name: the letters, digits and underscores of the name without the leading
\* digits, the first character in upper case; the empty string when nothing
\* remains.
C17_SanitizerReturns ==
    out.op = "goIdent" => ~out.panic /\ out.result = goIdent(out.s)

\* The declaration r of buf defines the type of the child field f: it has the
\* type's name, and it was made for the child itself or, when the type is a
\* reused one, for another node that is sameStructure to the child.
DefinesTypeOf(h, buf, r, f) ==
    /\ buf[r].name = f.type
    /\ IF f.reused
       THEN buf[r].node # f.node /\ sameStructure(h, f.node, buf[r].node)
       ELSE buf[r].node = f.node

\* C18: no dangling type reference.  The type of every child field of a
\* generation, freshly named or reused, is the name of a struct declared in
\* the same output.
C18_NoDanglingTypeReference ==
    Generated =>
        \A f \in ChildFields(out.buf) :
            \E r \in 1..Len(out.buf) : DefinesTypeOf(out.heap, out.buf, r, f)

\* C18 witness: an output with a child field of a reused type and nested
\* structs two levels down.
C18_Witness ==
    /\ Emitted
    /\ \E f \in ChildFields(out.code) : f.reused
    /\ \E f \in ChildFields(out.code) :
           ~f.reused /\ out.heap[out.heap[f.node].Parent].Parent # Nil

\* The nodes registered in knownTypes when the declarations buf[1..r] and
\* the first k fields of buf[r + 1] were written: generate registers a child
\* when it writes the child's field with a fresh type.
RegisteredAt(buf, r, k) ==
    { f.node : f \in { g \in ChildFields(SubSeq(buf, 1, r)) : ~g.reused } }
    \cup { buf[r + 1].fields[j].node :
             j \in { i \in 1..k : /\ buf[r + 1].fields[i].kind = "child"
                                  /\ ~buf[r + 1].fields[i].reused } }

\* No two of the nodes are sameStructure.
PairwiseDifferent(h, nodes) ==
    \A x, y \in nodes : x # y => ~sameStructure(h, x, y)

\* C19: known-types registry.  At every point of a generation run no two
\* nodes registered in knownTypes are sameStructure, at most one of them is
\* sameStructure to the child whose field is written next, and no two of the
\* nested structs written describe the same structure.
C19_KnownTypesRegistry ==
    Generated =>
        /\ DOMAIN out.knownTypes = RegisteredAt(out.buf, Len(out.buf), 0)
        /\ PairwiseDifferent(out.heap, DOMAIN out.knownTypes)
        /\ \A r \in 0..(Len(out.buf) - 1) :
               \A k \in 1..Len(out.buf[r + 1].fields) :
                   out.buf[r + 1].fields[k].kind = "child" =>
                       Cardinality({ t \in RegisteredAt(out.buf, r, k - 1) :
                                       sameStructure(out.heap, out.buf[r + 1].fields[k].node, t) })
                           = IF out.buf[r + 1].fields[k].reused THEN 1 ELSE 0
        /\ PairwiseDifferent(out.heap,
               { out.buf[r].node : r \in { q \in 1..Len(out.buf) :
                                             out.heap[out.buf[q].node].Parent # Nil } })

\* C19 witness: an output in which a known type was reused, with three or
\* more types registered.
C19_Witness ==
    /\ Emitted
    /\ Cardinality(DOMAIN out.knownTypes) >= 3
    /\ \E f \in ChildFields(out.code) : f.reused

====
